---- MODULE Spec2Model ----
(***************************************************************************)
(* AttendanceContract (contracts/ambassador-contract/src/lib.rs).          *)
(*                                                                         *)
(* The contract's storage entries are the state: the Admin entry of the    *)
(* instance storage, and the ActiveHash, Presence(hash, user) and          *)
(* UserProfile(user) entries of the persistent storage.  Every contract    *)
(* function is one action: it runs to completion on the current storage    *)
(* and leaves, next to the storage, what the invocation handed to the      *)
(* host: its result, the extend_ttl requests it issued and the events it   *)
(* published, in the order of the statements of the function.  The host    *)
(* runs one invocation at a time: it takes these outputs (Finish) before   *)
(* the next invocation starts.                                             *)
(***************************************************************************)
EXTENDS Integers, Sequences, FiniteSets, TLC

\* ---------------------------------------------------------------- bounds
\* Highest ledger sequence number the model lets the host reach.
MaxSeq == 1
\* Longest list of users handed to check_batch.
MaxBatch == 2

\* ---------------------------------------------------------------- values
Addresses == {"a1", "a2"}
Hashes == {"h1", "h2"}
None == "None"

\* A soroban String is modelled as the sequence of its bytes; len() is Len.
Str(n) == [i \in 1..n |-> "x"]
EmptyString == << >>
Nicknames == {Str(2), Str(3), Str(32), Str(33)}

TTL_THRESHOLD == 120960
TTL_BUMP_30D == 518400
TTL_BUMP_90D == 1555200

Errors ==
  {"AlreadyInitialized", "NotInitialized", "NoActiveSession", "IncorrectHash",
   "AlreadyRegistered", "InvalidNickname"}

\* A failed require_auth is a host-level failure, not one of the contract's errors.
AuthFailed == "AuthFailed"
Ok == "Ok"
Unit == "()"

\* ---------------------------------------------------------------- state
VARIABLES
  Admin,        \* instance storage, StorageKey::Admin: an address or None
  ActiveHash,   \* persistent storage, StorageKey::ActiveHash: a hash or None
  Presence,     \* persistent storage, StorageKey::Presence(hash, user) -> bool
  UserProfile,  \* persistent storage, StorageKey::UserProfile(user) -> profile
  sequence,     \* env.ledger().sequence()
  call,         \* the invocation that ran last: function, arguments, authorizations
  result,       \* its outcome: Ok, one of Errors, or AuthFailed
  ret,          \* the value it returned
  ttl,          \* the extend_ttl requests it issued, in order
  events        \* the events it published, in order

vars == <<Admin, ActiveHash, Presence, UserProfile, sequence, call, result, ret, ttl, events>>

\* Storage keys, as the key of an extend_ttl request.
InstanceKey == <<"Instance">>
ActiveHashKey == <<"ActiveHash">>
PresenceKey(hash, user) == <<"Presence", hash, user>>
UserProfileKey(user) == <<"UserProfile", user>>

\* storage().extend_ttl(key, threshold, extend_to)
extend_ttl(key, threshold, extend_to) ==
  [key |-> key, threshold |-> threshold, extend_to |-> extend_to]

\* events().publish((topic,), data)
publish(topic, data) == [topic |-> topic, data |-> data]

\* storage().set(key, value) on a map of entries
set(map, key, value) ==
  [k \in (DOMAIN map) \cup {key} |-> IF k = key THEN value ELSE map[k]]

\* storage().has(key)
has(map, key) == key \in DOMAIN map

NoEntries == [k \in {} |-> TRUE]

\* The storage as an invocation leaves it, with what it handed to the host.
Outcome(adm, hash, pres, prof, res, r, t, ev) ==
  [Admin |-> adm, ActiveHash |-> hash, Presence |-> pres, UserProfile |-> prof,
   result |-> res, ret |-> r, ttl |-> t, events |-> ev]

\* An invocation that ends without having written a storage entry.
Return(res, r, t) ==
  Outcome(Admin, ActiveHash, Presence, UserProfile, res, r, t, << >>)

\* ---------------------------------------------------------------- functions

\* initialize without the has(Admin) test: a later call replaces the admin.
initialize_unguarded(admin, auths) ==
  IF admin \notin auths
    THEN Return(AuthFailed, Unit, << >>)
  ELSE Outcome(admin, ActiveHash, Presence, UserProfile, Ok, Unit,
               <<extend_ttl(InstanceKey, TTL_THRESHOLD, TTL_BUMP_30D)>>,
               <<publish("init", <<admin>>)>>)

initialize(admin, auths) ==
  IF Admin # None
    THEN Return("AlreadyInitialized", Unit, << >>)
  ELSE IF admin \notin auths
    THEN Return(AuthFailed, Unit, << >>)
  ELSE Outcome(admin, ActiveHash, Presence, UserProfile, Ok, Unit,
               <<extend_ttl(InstanceKey, TTL_THRESHOLD, TTL_BUMP_30D)>>,
               <<publish("init", <<admin>>)>>)

\* set_hash storing the hash before admin.require_auth().
set_hash_writes_before_auth(new_hash, auths) ==
  IF Admin = None
    THEN Return("NotInitialized", Unit, << >>)
  ELSE IF Admin \notin auths
    THEN Outcome(Admin, new_hash, Presence, UserProfile, AuthFailed, Unit, << >>, << >>)
  ELSE Outcome(Admin, new_hash, Presence, UserProfile, Ok, Unit,
               <<extend_ttl(ActiveHashKey, TTL_THRESHOLD, TTL_BUMP_30D)>>,
               <<publish("new_sess", <<new_hash>>)>>)

\* set_hash starting the new session with the presence records removed.
set_hash_clears_presence(new_hash, auths) ==
  IF Admin = None
    THEN Return("NotInitialized", Unit, << >>)
  ELSE IF Admin \notin auths
    THEN Return(AuthFailed, Unit, << >>)
  ELSE Outcome(Admin, new_hash, NoEntries, UserProfile, Ok, Unit,
               <<extend_ttl(ActiveHashKey, TTL_THRESHOLD, TTL_BUMP_30D)>>,
               <<publish("new_sess", <<new_hash>>)>>)

\* set_hash accepting the authorization of any address.
set_hash_any_signer(new_hash, auths) ==
  IF Admin = None
    THEN Return("NotInitialized", Unit, << >>)
  ELSE IF auths = {}
    THEN Return(AuthFailed, Unit, << >>)
  ELSE Outcome(Admin, new_hash, Presence, UserProfile, Ok, Unit,
               <<extend_ttl(ActiveHashKey, TTL_THRESHOLD, TTL_BUMP_30D)>>,
               <<publish("new_sess", <<new_hash>>)>>)

set_hash(new_hash, auths) ==
  IF Admin = None
    THEN Return("NotInitialized", Unit, << >>)
  ELSE IF Admin \notin auths
    THEN Return(AuthFailed, Unit, << >>)
  ELSE Outcome(Admin, new_hash, Presence, UserProfile, Ok, Unit,
               <<extend_ttl(ActiveHashKey, TTL_THRESHOLD, TTL_BUMP_30D)>>,
               <<publish("new_sess", <<new_hash>>)>>)

\* register extending the ActiveHash entry only after the hashes compared equal.
register_extends_after_compare(user, submitted_hash, auths) ==
  IF user \notin auths
    THEN Return(AuthFailed, Unit, << >>)
  ELSE IF ActiveHash = None
    THEN Return("NoActiveSession", Unit, << >>)
  ELSE IF submitted_hash # ActiveHash
    THEN Return("IncorrectHash", Unit, << >>)
  ELSE
    LET t1 == <<extend_ttl(ActiveHashKey, TTL_THRESHOLD, TTL_BUMP_30D)>> IN
    IF has(Presence, <<ActiveHash, user>>)
      THEN Return("AlreadyRegistered", Unit, t1)
    ELSE
      Outcome(Admin, ActiveHash, set(Presence, <<ActiveHash, user>>, TRUE), UserProfile,
              Ok, Unit,
              Append(t1, extend_ttl(PresenceKey(ActiveHash, user),
                                    TTL_THRESHOLD, TTL_BUMP_30D))
                \o (IF has(UserProfile, user)
                      THEN <<extend_ttl(UserProfileKey(user), TTL_THRESHOLD, TTL_BUMP_90D)>>
                      ELSE << >>),
              <<publish("present",
                        <<user, ActiveHash,
                          IF has(UserProfile, user) THEN UserProfile[user].nickname
                                                    ELSE EmptyString>>)>>)

\* register without the has(presence_key) test: a second registration goes through.
register_unchecked(user, submitted_hash, auths) ==
  IF user \notin auths
    THEN Return(AuthFailed, Unit, << >>)
  ELSE IF ActiveHash = None
    THEN Return("NoActiveSession", Unit, << >>)
  ELSE
    LET t1 == <<extend_ttl(ActiveHashKey, TTL_THRESHOLD, TTL_BUMP_30D)>> IN
    IF submitted_hash # ActiveHash
      THEN Return("IncorrectHash", Unit, t1)
    ELSE
      Outcome(Admin, ActiveHash, set(Presence, <<ActiveHash, user>>, TRUE), UserProfile,
              Ok, Unit,
              Append(t1, extend_ttl(PresenceKey(ActiveHash, user),
                                    TTL_THRESHOLD, TTL_BUMP_30D))
                \o (IF has(UserProfile, user)
                      THEN <<extend_ttl(UserProfileKey(user), TTL_THRESHOLD, TTL_BUMP_90D)>>
                      ELSE << >>),
              <<publish("present",
                        <<user, ActiveHash,
                          IF has(UserProfile, user) THEN UserProfile[user].nickname
                                                    ELSE EmptyString>>)>>)

\* register reading the active session before user.require_auth().
register_auth_late(user, submitted_hash, auths) ==
  IF ActiveHash = None
    THEN Return("NoActiveSession", Unit, << >>)
  ELSE IF user \notin auths
    THEN Return(AuthFailed, Unit, << >>)
  ELSE
    LET t1 == <<extend_ttl(ActiveHashKey, TTL_THRESHOLD, TTL_BUMP_30D)>> IN
    IF submitted_hash # ActiveHash
      THEN Return("IncorrectHash", Unit, t1)
    ELSE IF has(Presence, <<ActiveHash, user>>)
      THEN Return("AlreadyRegistered", Unit, t1)
    ELSE
      Outcome(Admin, ActiveHash, set(Presence, <<ActiveHash, user>>, TRUE), UserProfile,
              Ok, Unit,
              Append(t1, extend_ttl(PresenceKey(ActiveHash, user),
                                    TTL_THRESHOLD, TTL_BUMP_30D))
                \o (IF has(UserProfile, user)
                      THEN <<extend_ttl(UserProfileKey(user), TTL_THRESHOLD, TTL_BUMP_90D)>>
                      ELSE << >>),
              <<publish("present",
                        <<user, ActiveHash,
                          IF has(UserProfile, user) THEN UserProfile[user].nickname
                                                    ELSE EmptyString>>)>>)

\* register testing the presence record before it compares the hashes.
register_presence_first(user, submitted_hash, auths) ==
  IF user \notin auths
    THEN Return(AuthFailed, Unit, << >>)
  ELSE IF ActiveHash = None
    THEN Return("NoActiveSession", Unit, << >>)
  ELSE
    LET t1 == <<extend_ttl(ActiveHashKey, TTL_THRESHOLD, TTL_BUMP_30D)>> IN
    IF has(Presence, <<ActiveHash, user>>)
      THEN Return("AlreadyRegistered", Unit, t1)
    ELSE IF submitted_hash # ActiveHash
      THEN Return("IncorrectHash", Unit, t1)
    ELSE
      Outcome(Admin, ActiveHash, set(Presence, <<ActiveHash, user>>, TRUE), UserProfile,
              Ok, Unit,
              Append(t1, extend_ttl(PresenceKey(ActiveHash, user),
                                    TTL_THRESHOLD, TTL_BUMP_30D))
                \o (IF has(UserProfile, user)
                      THEN <<extend_ttl(UserProfileKey(user), TTL_THRESHOLD, TTL_BUMP_90D)>>
                      ELSE << >>),
              <<publish("present",
                        <<user, ActiveHash,
                          IF has(UserProfile, user) THEN UserProfile[user].nickname
                                                    ELSE EmptyString>>)>>)

\* register refusing a user who has no profile.
register_requires_profile(user, submitted_hash, auths) ==
  IF user \notin auths
    THEN Return(AuthFailed, Unit, << >>)
  ELSE IF ActiveHash = None
    THEN Return("NoActiveSession", Unit, << >>)
  ELSE
    LET t1 == <<extend_ttl(ActiveHashKey, TTL_THRESHOLD, TTL_BUMP_30D)>> IN
    IF submitted_hash # ActiveHash
      THEN Return("IncorrectHash", Unit, t1)
    ELSE IF has(Presence, <<ActiveHash, user>>)
      THEN Return("AlreadyRegistered", Unit, t1)
    ELSE IF ~has(UserProfile, user)
      THEN Return("InvalidNickname", Unit, t1)
    ELSE
      Outcome(Admin, ActiveHash, set(Presence, <<ActiveHash, user>>, TRUE), UserProfile,
              Ok, Unit,
              t1 \o <<extend_ttl(PresenceKey(ActiveHash, user), TTL_THRESHOLD, TTL_BUMP_30D),
                      extend_ttl(UserProfileKey(user), TTL_THRESHOLD, TTL_BUMP_90D)>>,
              <<publish("present", <<user, ActiveHash, UserProfile[user].nickname>>)>>)

register(user, submitted_hash, auths) ==
  IF user \notin auths
    THEN Return(AuthFailed, Unit, << >>)
  ELSE IF ActiveHash = None
    THEN Return("NoActiveSession", Unit, << >>)
  ELSE
    LET stored_hash == ActiveHash
        t1 == <<extend_ttl(ActiveHashKey, TTL_THRESHOLD, TTL_BUMP_30D)>>
    IN
    IF submitted_hash # stored_hash
      THEN Return("IncorrectHash", Unit, t1)
    ELSE
      LET presence_key == <<stored_hash, user>> IN
      IF has(Presence, presence_key)
        THEN Return("AlreadyRegistered", Unit, t1)
      ELSE
        LET t2 == Append(t1, extend_ttl(PresenceKey(stored_hash, user),
                                        TTL_THRESHOLD, TTL_BUMP_30D))
            found == has(UserProfile, user)
            t3 == IF found
                    THEN Append(t2, extend_ttl(UserProfileKey(user),
                                               TTL_THRESHOLD, TTL_BUMP_90D))
                    ELSE t2
            nickname == IF found THEN UserProfile[user].nickname ELSE EmptyString
        IN
        Outcome(Admin, ActiveHash, set(Presence, presence_key, TRUE), UserProfile,
                Ok, Unit, t3,
                <<publish("present", <<user, stored_hash, nickname>>)>>)

\* transfer_admin without new_admin.require_auth(): the current admin alone decides.
transfer_admin_one_party(new_admin, auths) ==
  IF Admin = None
    THEN Return("NotInitialized", Unit, << >>)
  ELSE IF Admin \notin auths
    THEN Return(AuthFailed, Unit, << >>)
  ELSE Outcome(new_admin, ActiveHash, Presence, UserProfile, Ok, Unit,
               <<extend_ttl(InstanceKey, TTL_THRESHOLD, TTL_BUMP_30D)>>,
               <<publish("adm_xfer", <<Admin, new_admin>>)>>)

\* transfer_admin reading the admin for its event after it has stored the new one.
transfer_admin_event_after_write(new_admin, auths) ==
  IF Admin = None
    THEN Return("NotInitialized", Unit, << >>)
  ELSE IF Admin \notin auths \/ new_admin \notin auths
    THEN Return(AuthFailed, Unit, << >>)
  ELSE Outcome(new_admin, ActiveHash, Presence, UserProfile, Ok, Unit,
               <<extend_ttl(InstanceKey, TTL_THRESHOLD, TTL_BUMP_30D)>>,
               <<publish("adm_xfer", <<new_admin, new_admin>>)>>)

\* transfer_admin storing the admin it read instead of new_admin.
transfer_admin_stores_current(new_admin, auths) ==
  IF Admin = None
    THEN Return("NotInitialized", Unit, << >>)
  ELSE IF Admin \notin auths \/ new_admin \notin auths
    THEN Return(AuthFailed, Unit, << >>)
  ELSE Outcome(Admin, ActiveHash, Presence, UserProfile, Ok, Unit,
               <<extend_ttl(InstanceKey, TTL_THRESHOLD, TTL_BUMP_30D)>>,
               <<publish("adm_xfer", <<Admin, new_admin>>)>>)

transfer_admin(new_admin, auths) ==
  IF Admin = None
    THEN Return("NotInitialized", Unit, << >>)
  ELSE
    LET current_admin == Admin IN
    IF current_admin \notin auths
      THEN Return(AuthFailed, Unit, << >>)
    ELSE IF new_admin \notin auths
      THEN Return(AuthFailed, Unit, << >>)
    ELSE Outcome(new_admin, ActiveHash, Presence, UserProfile, Ok, Unit,
                 <<extend_ttl(InstanceKey, TTL_THRESHOLD, TTL_BUMP_30D)>>,
                 <<publish("adm_xfer", <<current_admin, new_admin>>)>>)

\* set_profile storing the profile before it validates the nickname.
set_profile_stores_first(user, nickname, auths) ==
  IF user \notin auths
    THEN Return(AuthFailed, Unit, << >>)
  ELSE
    LET profile == [nickname |-> nickname, registered_at |-> sequence]
        stored == set(UserProfile, user, profile)
    IN
    IF Len(nickname) < 3 \/ Len(nickname) > 32
      THEN Outcome(Admin, ActiveHash, Presence, stored, "InvalidNickname", Unit,
                   << >>, << >>)
      ELSE Outcome(Admin, ActiveHash, Presence, stored, Ok, Unit,
                   <<extend_ttl(UserProfileKey(user), TTL_THRESHOLD, TTL_BUMP_90D)>>,
                   <<publish("profile", <<user, nickname>>)>>)

\* set_profile refusing a nickname of 3 bytes (<= where the code has <).
set_profile_off_by_one(user, nickname, auths) ==
  IF user \notin auths
    THEN Return(AuthFailed, Unit, << >>)
  ELSE IF Len(nickname) <= 3 \/ Len(nickname) > 32
    THEN Return("InvalidNickname", Unit, << >>)
  ELSE
    LET profile == [nickname |-> nickname, registered_at |-> sequence] IN
    Outcome(Admin, ActiveHash, Presence, set(UserProfile, user, profile), Ok, Unit,
            <<extend_ttl(UserProfileKey(user), TTL_THRESHOLD, TTL_BUMP_90D)>>,
            <<publish("profile", <<user, nickname>>)>>)

\* set_profile keeping the registered_at of the profile it replaces.
set_profile_keeps_registered_at(user, nickname, auths) ==
  IF user \notin auths
    THEN Return(AuthFailed, Unit, << >>)
  ELSE IF Len(nickname) < 3 \/ Len(nickname) > 32
    THEN Return("InvalidNickname", Unit, << >>)
  ELSE
    LET profile == [nickname |-> nickname,
                    registered_at |-> IF has(UserProfile, user)
                                        THEN UserProfile[user].registered_at
                                        ELSE sequence]
    IN
    Outcome(Admin, ActiveHash, Presence, set(UserProfile, user, profile), Ok, Unit,
            <<extend_ttl(UserProfileKey(user), TTL_THRESHOLD, TTL_BUMP_90D)>>,
            <<publish("profile", <<user, nickname>>)>>)

set_profile(user, nickname, auths) ==
  IF user \notin auths
    THEN Return(AuthFailed, Unit, << >>)
  ELSE IF Len(nickname) < 3 \/ Len(nickname) > 32
    THEN Return("InvalidNickname", Unit, << >>)
  ELSE
    LET profile == [nickname |-> nickname, registered_at |-> sequence] IN
    Outcome(Admin, ActiveHash, Presence, set(UserProfile, user, profile), Ok, Unit,
            <<extend_ttl(UserProfileKey(user), TTL_THRESHOLD, TTL_BUMP_90D)>>,
            <<publish("profile", <<user, nickname>>)>>)

get_profile(user) ==
  IF has(UserProfile, user)
    THEN Return(Ok, UserProfile[user],
                <<extend_ttl(UserProfileKey(user), TTL_THRESHOLD, TTL_BUMP_90D)>>)
    ELSE Return(Ok, None, << >>)

\* check_presence looking the user up under every hash, not the active one alone.
check_presence_any_session(user) ==
  IF ActiveHash = None
    THEN Return(Ok, FALSE, << >>)
  ELSE
    LET t1 == <<extend_ttl(ActiveHashKey, TTL_THRESHOLD, TTL_BUMP_30D)>>
        found == {h \in Hashes : has(Presence, <<h, user>>)}
    IN
    IF found # {}
      THEN Return(Ok, TRUE, Append(t1, extend_ttl(PresenceKey(CHOOSE h \in found : TRUE, user),
                                                  TTL_THRESHOLD, TTL_BUMP_30D)))
      ELSE Return(Ok, FALSE, t1)

\* check_presence extending the ActiveHash entry before it reads it, as get_admin
\* does with the instance record.
check_presence_extends_first(user) ==
  LET t1 == <<extend_ttl(ActiveHashKey, TTL_THRESHOLD, TTL_BUMP_30D)>> IN
  IF ActiveHash = None
    THEN Return(Ok, FALSE, t1)
  ELSE IF has(Presence, <<ActiveHash, user>>) /\ Presence[<<ActiveHash, user>>]
    THEN Return(Ok, TRUE, Append(t1, extend_ttl(PresenceKey(ActiveHash, user),
                                                TTL_THRESHOLD, TTL_BUMP_30D)))
  ELSE Return(Ok, FALSE, t1)

check_presence(user) ==
  IF ActiveHash = None
    THEN Return(Ok, FALSE, << >>)
  ELSE
    LET current_hash == ActiveHash
        t1 == <<extend_ttl(ActiveHashKey, TTL_THRESHOLD, TTL_BUMP_30D)>>
        presence_key == <<current_hash, user>>
        is_present == IF has(Presence, presence_key) THEN Presence[presence_key] ELSE FALSE
    IN
    IF is_present
      THEN Return(Ok, TRUE, Append(t1, extend_ttl(PresenceKey(current_hash, user),
                                                  TTL_THRESHOLD, TTL_BUMP_30D)))
      ELSE Return(Ok, FALSE, t1)

get_admin ==
  LET t1 == <<extend_ttl(InstanceKey, TTL_THRESHOLD, TTL_BUMP_30D)>> IN
  IF Admin = None
    THEN Return("NotInitialized", Unit, t1)
    ELSE Return(Ok, Admin, t1)

get_session ==
  IF ActiveHash # None
    THEN Return(Ok, ActiveHash,
                <<extend_ttl(ActiveHashKey, TTL_THRESHOLD, TTL_BUMP_30D)>>)
    ELSE Return(Ok, None, << >>)

\* The loop of check_batch from its i-th user on: the results and the extend_ttl
\* requests gathered so far, one user per iteration, in input order.
RECURSIVE check_batch_loop(_, _, _, _, _)
check_batch_loop(current_hash, users, i, results, t) ==
  IF i > Len(users)
    THEN Return(Ok, results, t)
  ELSE
    LET user == users[i]
        presence_key == <<current_hash, user>>
        is_present == IF has(Presence, presence_key) THEN Presence[presence_key] ELSE FALSE
    IN
    check_batch_loop(current_hash, users, i + 1, Append(results, is_present),
                     IF is_present
                       THEN Append(t, extend_ttl(PresenceKey(current_hash, user),
                                                 TTL_THRESHOLD, TTL_BUMP_30D))
                       ELSE t)

\* check_batch answering false for each user when there is no active session.
check_batch_all_false(users) ==
  LET session == get_session IN
  IF session.ret = None
    THEN Return(Ok, [i \in DOMAIN users |-> FALSE], session.ttl)
    ELSE check_batch_loop(session.ret, users, 1, << >>, session.ttl)

\* check_batch resolving each identity once: later occurrences are skipped.
check_batch_dedup(users) ==
  LET session == get_session
      firsts == {i \in DOMAIN users : \A j \in 1..(i - 1) : users[j] # users[i]}
      nth(k) == CHOOSE i \in firsts : Cardinality({j \in firsts : j < i}) = k - 1
      distinct == [k \in 1..Cardinality(firsts) |-> users[nth(k)]]
  IN
  IF session.ret = None
    THEN Return(Ok, << >>, session.ttl)
    ELSE check_batch_loop(session.ret, distinct, 1, << >>, session.ttl)

check_batch(users) ==
  LET session == get_session IN
  IF session.ret = None
    THEN Return(Ok, << >>, session.ttl)
    ELSE check_batch_loop(session.ret, users, 1, << >>, session.ttl)

\* ---------------------------------------------------------------- actions

Call(op, addr, hash, nickname, users, auths) ==
  [op |-> op, addr |-> addr, hash |-> hash, nickname |-> nickname,
   users |-> users, auths |-> auths]

Idle == Call("idle", None, None, EmptyString, << >>, {})

\* One invocation: the storage and the host-visible outputs become the outcome's.
Invoke(c, out) ==
  /\ call = Idle
  /\ call' = c
  /\ Admin' = out.Admin
  /\ ActiveHash' = out.ActiveHash
  /\ Presence' = out.Presence
  /\ UserProfile' = out.UserProfile
  /\ result' = out.result
  /\ ret' = out.ret
  /\ ttl' = out.ttl
  /\ events' = out.events
  /\ UNCHANGED sequence

Batches == UNION {[1..n -> Addresses] : n \in 0..MaxBatch}

Initialize ==
  \E admin \in Addresses, auths \in SUBSET Addresses :
    Invoke(Call("initialize", admin, None, EmptyString, << >>, auths),
           initialize(admin, auths))

SetHash ==
  \E new_hash \in Hashes, auths \in SUBSET Addresses :
    Invoke(Call("set_hash", None, new_hash, EmptyString, << >>, auths),
           set_hash(new_hash, auths))

Register ==
  \E user \in Addresses, submitted_hash \in Hashes, auths \in SUBSET Addresses :
    Invoke(Call("register", user, submitted_hash, EmptyString, << >>, auths),
           register(user, submitted_hash, auths))

TransferAdmin ==
  \E new_admin \in Addresses, auths \in SUBSET Addresses :
    Invoke(Call("transfer_admin", new_admin, None, EmptyString, << >>, auths),
           transfer_admin(new_admin, auths))

SetProfile ==
  \E user \in Addresses, nickname \in Nicknames, auths \in SUBSET Addresses :
    Invoke(Call("set_profile", user, None, nickname, << >>, auths),
           set_profile(user, nickname, auths))

GetProfile ==
  \E user \in Addresses :
    Invoke(Call("get_profile", user, None, EmptyString, << >>, {}), get_profile(user))

CheckPresence ==
  \E user \in Addresses :
    Invoke(Call("check_presence", user, None, EmptyString, << >>, {}),
           check_presence(user))

GetAdmin ==
  Invoke(Call("get_admin", None, None, EmptyString, << >>, {}), get_admin)

GetSession ==
  Invoke(Call("get_session", None, None, EmptyString, << >>, {}), get_session)

CheckBatch ==
  \E users \in Batches :
    Invoke(Call("check_batch", None, None, EmptyString, users, {}), check_batch(users))

\* The host closes a ledger: the sequence number the next invocations read grows.
\* Invocations of one ledger read the same sequence number.
CloseLedger ==
  /\ call = Idle
  /\ sequence < MaxSeq
  /\ sequence' = sequence + 1
  /\ UNCHANGED <<Admin, ActiveHash, Presence, UserProfile, call, result, ret, ttl, events>>

\* The host takes the finished invocation's result, extend_ttl requests and events;
\* the storage stays as the invocation left it.
Finish ==
  /\ call # Idle
  /\ call' = Idle
  /\ result' = Ok
  /\ ret' = Unit
  /\ ttl' = << >>
  /\ events' = << >>
  /\ UNCHANGED <<Admin, ActiveHash, Presence, UserProfile, sequence>>

Init ==
  /\ Admin = None
  /\ ActiveHash = None
  /\ Presence = NoEntries
  /\ UserProfile = NoEntries
  /\ sequence = 0
  /\ call = Idle
  /\ result = Ok
  /\ ret = Unit
  /\ ttl = << >>
  /\ events = << >>

Next ==
  \/ Initialize
  \/ SetHash
  \/ Register
  \/ TransferAdmin
  \/ SetProfile
  \/ GetProfile
  \/ CheckPresence
  \/ GetAdmin
  \/ GetSession
  \/ CheckBatch
  \/ CloseLedger
  \/ Finish

Spec == Init /\ [][Next]_vars

\* ---------------------------------------------------------------- properties

\* The four classes of storage entries.
Storage == <<Admin, ActiveHash, Presence, UserProfile>>

ExtendActiveHash == extend_ttl(ActiveHashKey, TTL_THRESHOLD, TTL_BUMP_30D)
ExtendInstance == extend_ttl(InstanceKey, TTL_THRESHOLD, TTL_BUMP_30D)

\* C1, as claimed: every invocation that returns one of the contract's errors leaves
\* the storage as it was, has issued no extend_ttl request and published no event.
C1_ErrorLeavesNoTrace ==
  [][result' \in Errors =>
       /\ Storage' = Storage
       /\ ttl' = << >>
       /\ events' = << >>]_vars

\* C1, amended: every invocation that returns one of the contract's errors leaves
\* the storage entries as they were and publishes no event; the extend_ttl requests
\* it has issued are exactly: the ActiveHash request when register returns
\* IncorrectHash or AlreadyRegistered, the instance request when get_admin returns
\* NotInitialized, and none in every other case.
C1_ErrorWritesNothing ==
  [][result' \in Errors =>
       /\ Storage' = Storage
       /\ events' = << >>
       /\ ttl' = IF result' \in {"IncorrectHash", "AlreadyRegistered"}
                   THEN <<ExtendActiveHash>>
                 ELSE IF call'.op = "get_admin"
                   THEN <<ExtendInstance>>
                 ELSE << >>]_vars

\* A register that failed with AlreadyRegistered after it had issued its request.
C1_Witness ==
  /\ call.op = "register"
  /\ result = "AlreadyRegistered"
  /\ ttl = <<ExtendActiveHash>>
  /\ events = << >>

\* C2: an authorized register with a hash other than the active one returns
\* IncorrectHash, and that failed invocation has issued the extend_ttl request for
\* the ActiveHash entry.
C2_IncorrectHashStillExtends ==
  [][(/\ call'.op = "register"
      /\ call'.addr \in call'.auths
      /\ ActiveHash # None
      /\ call'.hash # ActiveHash)
     => (/\ result' = "IncorrectHash"
         /\ \E i \in DOMAIN ttl' : ttl'[i] = ExtendActiveHash)]_vars

C2_Witness ==
  /\ call.op = "register"
  /\ ActiveHash # None
  /\ call.hash # ActiveHash
  /\ result = "IncorrectHash"
  /\ ExtendActiveHash \in {ttl[i] : i \in DOMAIN ttl}

\* C3: initialize succeeds only while no admin is stored; once an admin is stored
\* it stays stored, and every later initialize, whatever its argument and its
\* authorizations, returns AlreadyInitialized and changes nothing.
C3_InitializeOnce ==
  [][/\ (call'.op = "initialize" /\ result' = Ok) => Admin = None
     /\ Admin # None => Admin' # None
     /\ (call'.op = "initialize" /\ Admin # None)
          => (/\ result' = "AlreadyInitialized"
              /\ Storage' = Storage
              /\ ttl' = << >>
              /\ events' = << >>)]_vars

\* A second initialize, for another address and authorized by it, that was refused.
C3_Witness ==
  /\ call.op = "initialize"
  /\ call.addr \in call.auths
  /\ Admin \in Addresses
  /\ call.addr # Admin
  /\ result = "AlreadyInitialized"

\* C4: an authorized register(u, h) with h the active hash succeeds when no presence
\* record for (h, u) exists and writes the record true; when the record exists it
\* returns AlreadyRegistered and the presence records, the record for (h, u) true
\* among them, stay as they were.
C4_RegisterOncePerSession ==
  [][(/\ call'.op = "register"
      /\ call'.addr \in call'.auths
      /\ ActiveHash # None
      /\ call'.hash = ActiveHash)
     => LET key == <<ActiveHash, call'.addr>> IN
        IF has(Presence, key)
          THEN /\ result' = "AlreadyRegistered"
               /\ Presence' = Presence
               /\ Presence'[key] = TRUE
          ELSE /\ result' = Ok
               /\ has(Presence', key)
               /\ Presence'[key] = TRUE]_vars

C4_Witness ==
  /\ call.op = "register"
  /\ call.hash = ActiveHash
  /\ result = "AlreadyRegistered"
  /\ has(Presence, <<call.hash, call.addr>>)
  /\ Presence[<<call.hash, call.addr>>] = TRUE

\* C5: transfer_admin(new_admin) succeeds, and makes new_admin the stored admin,
\* exactly when an admin is stored and both that admin and new_admin authorize the
\* invocation; in every other case it fails and the stored admin is unchanged.
C5_TransferNeedsBoth ==
  [][call'.op = "transfer_admin" =>
       IF Admin # None /\ Admin \in call'.auths /\ call'.addr \in call'.auths
         THEN result' = Ok /\ Admin' = call'.addr
         ELSE result' # Ok /\ Admin' = Admin]_vars

\* A transfer that only the new admin authorized, refused.
C5_Witness ==
  /\ call.op = "transfer_admin"
  /\ Admin \in Addresses
  /\ call.addr # Admin
  /\ call.auths = {call.addr}
  /\ result = AuthFailed

\* True when the user has a presence record under hash h while another hash is the
\* active one, and under no other hash: the record is orphaned.
OrphanedOnly(h, u) ==
  /\ has(Presence, <<h, u>>)
  /\ ActiveHash # h
  /\ \A g \in Hashes \ {h} : ~has(Presence, <<g, u>>)

\* C6, as claimed: once a user's only presence record is orphaned, then as long as
\* the user has no other record the current-session lookups report false for the
\* user in every later state.
C6_OrphanedForever ==
  [][\A h \in Hashes, u \in Addresses :
       (/\ OrphanedOnly(h, u)
        /\ \A g \in Hashes \ {h} : ~has(Presence', <<g, u>>))
       => (/\ (check_presence(u).ret)' = FALSE
           /\ (check_batch(<<u>>).ret)' = <<FALSE>>)]_vars

\* C6, amended: set_hash clears no presence record; while the active hash differs
\* from h1, check_presence and check_batch report false for a user who has no
\* record under the active hash, whatever records the user has under h1, and an
\* authorized register of that user under the active hash succeeds.  A record
\* orphaned under h1 becomes reachable again only by a successful set_hash(h1).
C6_OrphanedWhileSuperseded ==
  [][/\ (call'.op = "set_hash" /\ result' = Ok) => Presence' = Presence
     /\ (call'.op = "check_presence" /\ ~has(Presence, <<ActiveHash, call'.addr>>))
          => ret' = FALSE
     /\ (call'.op = "check_batch" /\ ActiveHash # None)
          => \A i \in DOMAIN call'.users :
               ~has(Presence, <<ActiveHash, call'.users[i]>>) => ret'[i] = FALSE
     /\ (/\ call'.op = "register"
         /\ call'.addr \in call'.auths
         /\ ActiveHash # None
         /\ call'.hash = ActiveHash
         /\ ~has(Presence, <<ActiveHash, call'.addr>>))
          => result' = Ok
     /\ \A h \in Hashes, u \in Addresses :
          (has(Presence, <<h, u>>) /\ ActiveHash # h /\ ActiveHash' = h)
            => (call'.op = "set_hash" /\ call'.hash = h /\ result' = Ok)]_vars

\* check_presence answered false for a user whose record is orphaned.
C6_Witness ==
  /\ call.op = "check_presence"
  /\ ret = FALSE
  /\ \E h \in Hashes : OrphanedOnly(h, call.addr)

\* C7: without an active session check_batch returns the empty list for every
\* input list; with an active session its result is never shorter than the input.
C7_BatchEmptyWithoutSession ==
  [][call'.op = "check_batch" =>
       IF ActiveHash = None
         THEN ret' = << >>
         ELSE Len(ret') >= Len(call'.users)]_vars

C7_Witness ==
  /\ call.op = "check_batch"
  /\ Len(call.users) > 0
  /\ ActiveHash = None
  /\ ret = << >>

\* C8: with an active session check_batch(users) returns a list as long as users
\* whose i-th entry is what check_presence(users[i]) returns in that state;
\* repeated identities are each resolved.
C8_BatchMatchesCheckPresence ==
  [][(call'.op = "check_batch" /\ ActiveHash # None) =>
       /\ Len(ret') = Len(call'.users)
       /\ \A i \in DOMAIN call'.users :
            ret'[i] = check_presence(call'.users[i]).ret]_vars

\* check_batch([A, A]) with A present answered [true, true].
C8_Witness ==
  /\ call.op = "check_batch"
  /\ Len(call.users) = 2
  /\ call.users[1] = call.users[2]
  /\ ret = <<TRUE, TRUE>>

\* C9: an authorized set_profile succeeds exactly when the nickname has between 3
\* and 32 bytes; otherwise it returns InvalidNickname and the profiles stay as they
\* were.
C9_NicknameLength ==
  [][(call'.op = "set_profile" /\ call'.addr \in call'.auths) =>
       IF 3 <= Len(call'.nickname) /\ Len(call'.nickname) <= 32
         THEN result' = Ok
         ELSE result' = "InvalidNickname" /\ UserProfile' = UserProfile]_vars

\* A nickname of 33 bytes refused for a user who has a profile.
C9_Witness ==
  /\ call.op = "set_profile"
  /\ Len(call.nickname) = 33
  /\ result = "InvalidNickname"
  /\ has(UserProfile, call.addr)

\* C10, as claimed: a successful set_profile stores the new nickname with the
\* current sequence number, and over a profile the user already has the stored
\* registered_at strictly increases.
C10_RegisteredAtStrictlyIncreases ==
  [][(call'.op = "set_profile" /\ result' = Ok) =>
       LET user == call'.addr IN
       /\ has(UserProfile', user)
       /\ UserProfile'[user] = [nickname |-> call'.nickname, registered_at |-> sequence]
       /\ has(UserProfile, user)
            => UserProfile'[user].registered_at > UserProfile[user].registered_at]_vars

\* C10, amended: a successful set_profile replaces the user's profile by the new
\* nickname and the current sequence number and leaves the other profiles alone;
\* over a profile the user already has the stored registered_at never decreases
\* (it is equal when both calls run in the same ledger).
C10_RegisteredAtNeverDecreases ==
  [][(call'.op = "set_profile" /\ result' = Ok) =>
       LET user == call'.addr IN
       /\ DOMAIN UserProfile' = DOMAIN UserProfile \cup {user}
       /\ UserProfile'[user] = [nickname |-> call'.nickname, registered_at |-> sequence]
       /\ \A other \in DOMAIN UserProfile \ {user} : UserProfile'[other] = UserProfile[other]
       /\ has(UserProfile, user)
            => UserProfile'[user].registered_at >= UserProfile[user].registered_at]_vars

\* A profile written in a ledger after the first one.
C10_Witness ==
  /\ call.op = "set_profile"
  /\ result = Ok
  /\ sequence > 0
  /\ UserProfile[call.addr] = [nickname |-> call.nickname, registered_at |-> sequence]

\* C11: an invocation publishes exactly one event when it is a successful
\* initialize, set_hash, register, transfer_admin or set_profile, with the topic
\* and the payload of that function: init(admin), new_sess(hash),
\* present(user, hash, nickname), adm_xfer(old admin, new admin),
\* profile(user, nickname); a failed invocation and a read publish none.
C11_OneEventPerSuccess ==
  [][call'.op # "idle" =>
       events' =
         IF result' # Ok THEN << >>
         ELSE CASE call'.op = "initialize" -> <<publish("init", <<call'.addr>>)>>
                [] call'.op = "set_hash" -> <<publish("new_sess", <<call'.hash>>)>>
                [] call'.op = "register" ->
                     <<publish("present",
                               <<call'.addr, call'.hash,
                                 IF has(UserProfile, call'.addr)
                                   THEN UserProfile[call'.addr].nickname
                                   ELSE EmptyString>>)>>
                [] call'.op = "transfer_admin" ->
                     <<publish("adm_xfer", <<Admin, call'.addr>>)>>
                [] call'.op = "set_profile" ->
                     <<publish("profile", <<call'.addr, call'.nickname>>)>>
                [] OTHER -> << >>]_vars

\* A transfer between two different addresses, with its one adm_xfer(old, new) event.
C11_Witness ==
  /\ call.op = "transfer_admin"
  /\ result = Ok
  /\ Len(events) = 1
  /\ events[1].topic = "adm_xfer"
  /\ events[1].data[1] # events[1].data[2]
  /\ events[1].data[2] = Admin

\* The functions that call require_auth, and whether invocation c lacks an
\* authorization its function requires: the one of its address argument
\* (initialize, register, set_profile, transfer_admin) or the stored admin's
\* (set_hash, transfer_admin).
AuthOps == {"initialize", "set_hash", "register", "transfer_admin", "set_profile"}

LacksAuth(c) ==
  CASE c.op \in {"initialize", "register", "set_profile"} -> c.addr \notin c.auths
    [] c.op = "set_hash" -> Admin \notin c.auths
    [] c.op = "transfer_admin" -> Admin \notin c.auths \/ c.addr \notin c.auths
    [] OTHER -> FALSE

\* C12, as claimed: an invocation that lacks a required authorization always ends
\* as an authorization failure, never as one of the contract's own errors.
C12_AuthCheckedFirst ==
  [][(call'.op \in AuthOps /\ LacksAuth(call')) => result' = AuthFailed]_vars

\* C12, amended: an invocation that lacks a required authorization changes no
\* storage entry, issues no extend_ttl request and publishes no event.  It ends as
\* an authorization failure, except where the function reads the Admin entry before
\* it calls require_auth: initialize on an initialized contract ends
\* AlreadyInitialized, set_hash and transfer_admin on a contract without admin end
\* NotInitialized.
C12_UnauthorizedChangesNothing ==
  [][(call'.op \in AuthOps /\ LacksAuth(call')) =>
       /\ Storage' = Storage
       /\ ttl' = << >>
       /\ events' = << >>
       /\ result' = IF call'.op = "initialize" /\ Admin # None
                      THEN "AlreadyInitialized"
                    ELSE IF call'.op \in {"set_hash", "transfer_admin"} /\ Admin = None
                      THEN "NotInitialized"
                    ELSE AuthFailed]_vars

\* An initialize nobody authorized, answered AlreadyInitialized.
C12_Witness ==
  /\ call.op = "initialize"
  /\ call.auths = {}
  /\ result = "AlreadyInitialized"

\* C13: the Admin entry holds one address or nothing; once it holds an address it
\* never becomes empty again; a successful initialize or transfer_admin makes its
\* argument the stored admin, and no other invocation changes the stored admin.
C13_OneAdmin ==
  [][/\ Admin' \in Addresses \cup {None}
     /\ Admin # None => Admin' # None
     /\ IF call'.op \in {"initialize", "transfer_admin"} /\ result' = Ok
          THEN Admin' = call'.addr
          ELSE Admin' = Admin]_vars

\* The admin stored by initialize has been replaced by a transfer to another address.
C13_Witness ==
  /\ call.op = "transfer_admin"
  /\ result = Ok
  /\ call.auths = Addresses
  /\ Admin = call.addr
  /\ \E e \in {events[i] : i \in DOMAIN events} : e.data[1] \in Addresses \ {Admin}

\* True when register(u, h), authorized by u, returns IncorrectHash in this state.
FailsIncorrectHash(u, h) == register(u, h, {u}).result = "IncorrectHash"

\* C14, as claimed: once register(u, h) fails with IncorrectHash it fails with
\* IncorrectHash in every later state, whatever invocation ran in between.
C14_IncorrectHashForever ==
  [][\A u \in Addresses, h \in Hashes :
       FailsIncorrectHash(u, h) => FailsIncorrectHash(u, h)']_vars

\* C14, amended: a register(u, h) that failed with IncorrectHash left a state in
\* which the same call fails the same way, and it keeps failing that way until a
\* successful set_hash(h) makes h the active hash; no other invocation changes
\* that outcome.
C14_IncorrectHashUntilSetHash ==
  [][\A u \in Addresses, h \in Hashes :
       /\ (/\ call'.op = "register"
           /\ call'.addr = u
           /\ call'.hash = h
           /\ result' = "IncorrectHash")
            => FailsIncorrectHash(u, h)'
       /\ (FailsIncorrectHash(u, h) /\ ~FailsIncorrectHash(u, h)')
            => (call'.op = "set_hash" /\ call'.hash = h /\ result' = Ok)]_vars

\* register(u, h) refused with IncorrectHash for a user who once registered under h.
C14_Witness ==
  /\ call.op = "register"
  /\ result = "IncorrectHash"
  /\ has(Presence, <<call.hash, call.addr>>)
  /\ FailsIncorrectHash(call.addr, call.hash)

\* The governed records an invocation c reads or writes when it succeeds, as the
\* keys of their extend_ttl requests: the instance record for the Admin entry, the
\* ActiveHash entry, and the Presence and UserProfile entries that exist when the
\* invocation ends.
Touched(c) ==
  LET present(user) == IF ActiveHash # None /\ has(Presence, <<ActiveHash, user>>)
                         THEN {PresenceKey(ActiveHash, user)} ELSE {}
      profile(user) == IF has(UserProfile, user) THEN {UserProfileKey(user)} ELSE {}
      session == IF ActiveHash # None THEN {ActiveHashKey} ELSE {}
  IN
  CASE c.op \in {"initialize", "transfer_admin", "get_admin"} -> {InstanceKey}
    [] c.op = "set_hash" -> {InstanceKey, ActiveHashKey}
    [] c.op = "register" ->
         {ActiveHashKey, PresenceKey(c.hash, c.addr)} \cup profile(c.addr)
    [] c.op = "set_profile" -> {UserProfileKey(c.addr)}
    [] c.op = "get_profile" -> profile(c.addr)
    [] c.op = "check_presence" -> session \cup present(c.addr)
    [] c.op = "get_session" -> session
    [] c.op = "check_batch" ->
         session \cup UNION {present(c.users[i]) : i \in DOMAIN c.users}
    [] OTHER -> {}

\* C15: every successful invocation issues an extend_ttl request for every governed
\* record it reads or writes.
C15_TouchRenews ==
  [][(call'.op # "idle" /\ result' = Ok) =>
       Touched(call') \subseteq {ttl'[i].key : i \in DOMAIN ttl'}]_vars

\* C16: every stored presence record is true; an invocation removes no presence
\* record and changes none; a successful register adds exactly the record of
\* (active hash, user), which did not exist, and no other invocation adds one.
C16_PresenceWriteOnce ==
  [][/\ \A k \in DOMAIN Presence' : Presence'[k] = TRUE
     /\ \A k \in DOMAIN Presence : has(Presence', k) /\ Presence'[k] = Presence[k]
     /\ IF call'.op = "register" /\ result' = Ok
          THEN /\ ~has(Presence, <<ActiveHash, call'.addr>>)
               /\ DOMAIN Presence' = DOMAIN Presence \cup {<<ActiveHash, call'.addr>>}
          ELSE DOMAIN Presence' = DOMAIN Presence]_vars

\* A set_hash that left the records of the session it superseded in place.
C16_Witness ==
  /\ call.op = "set_hash"
  /\ result = Ok
  /\ \E k \in DOMAIN Presence : k[1] # ActiveHash /\ Presence[k] = TRUE

\* C17: set_hash returns NotInitialized when no admin is stored, fails when the
\* stored admin is not among the authorizing addresses, and otherwise succeeds and
\* makes new_hash the active hash, whether or not a hash was active; the active
\* hash changes in no other invocation.
C17_SetHashByAdminOnly ==
  [][/\ call'.op = "set_hash" =>
          IF Admin = None
            THEN result' = "NotInitialized" /\ ActiveHash' = ActiveHash
          ELSE IF Admin \notin call'.auths
            THEN result' = AuthFailed /\ ActiveHash' = ActiveHash
          ELSE result' = Ok /\ ActiveHash' = call'.hash
     /\ ActiveHash' # ActiveHash => (call'.op = "set_hash" /\ result' = Ok)]_vars

\* A set_hash authorized by an address that is not the stored admin, refused while
\* a session is active.
C17_Witness ==
  /\ call.op = "set_hash"
  /\ Admin \in Addresses
  /\ call.auths = Addresses \ {Admin}
  /\ result = AuthFailed
  /\ ActiveHash \in Hashes \ {call.hash}

\* C18: the outcome of an authorized register(user, submitted_hash) is
\* NoActiveSession when no hash is active; otherwise IncorrectHash when
\* submitted_hash differs from the active hash; otherwise AlreadyRegistered when
\* the record of (active hash, user) exists; otherwise success, which writes that
\* record and no other storage entry.
C18_RegisterOutcomeOrder ==
  [][(call'.op = "register" /\ call'.addr \in call'.auths) =>
       LET key == <<ActiveHash, call'.addr>> IN
       IF ActiveHash = None
         THEN result' = "NoActiveSession" /\ Storage' = Storage
       ELSE IF call'.hash # ActiveHash
         THEN result' = "IncorrectHash" /\ Storage' = Storage
       ELSE IF has(Presence, key)
         THEN result' = "AlreadyRegistered" /\ Storage' = Storage
       ELSE /\ result' = Ok
            /\ Presence' = set(Presence, key, TRUE)
            /\ <<Admin', ActiveHash', UserProfile'>> = <<Admin, ActiveHash, UserProfile>>]_vars

\* A wrong hash from a user registered in the active session: IncorrectHash.
C18_Witness ==
  /\ call.op = "register"
  /\ ActiveHash # None
  /\ has(Presence, <<ActiveHash, call.addr>>)
  /\ call.hash # ActiveHash
  /\ result = "IncorrectHash"

\* C19: an authorized register with the active hash, for a user without a presence
\* record in the active session, succeeds whether or not the user has a profile;
\* its present event carries the nickname of the user's profile, or the empty
\* string when the user has none, and register leaves the profiles as they were.
\* The nickname of a profile is the one of the user's last successful set_profile:
\* set_profile stores its nickname and no other invocation changes a profile.
C19_RegisterWithoutProfile ==
  [][/\ (/\ call'.op = "register"
         /\ call'.addr \in call'.auths
         /\ ActiveHash # None
         /\ call'.hash = ActiveHash
         /\ ~has(Presence, <<ActiveHash, call'.addr>>))
          => (/\ result' = Ok
              /\ Len(events') = 1
              /\ events'[1].topic = "present"
              /\ events'[1].data[3] = IF has(UserProfile, call'.addr)
                                        THEN UserProfile[call'.addr].nickname
                                        ELSE EmptyString)
     /\ call'.op = "register" => UserProfile' = UserProfile
     /\ (call'.op = "set_profile" /\ result' = Ok)
          => UserProfile'[call'.addr].nickname = call'.nickname
     /\ UserProfile' # UserProfile => (call'.op = "set_profile" /\ result' = Ok)]_vars

\* A successful register of a user without profile: the event's nickname is empty.
C19_Witness ==
  /\ call.op = "register"
  /\ result = Ok
  /\ ~has(UserProfile, call.addr)
  /\ events = <<publish("present", <<call.addr, call.hash, EmptyString>>)>>

\* The view functions.
ReadOps == {"get_admin", "get_session", "get_profile", "check_presence", "check_batch"}

\* C20: get_admin, get_session, get_profile, check_presence and check_batch change
\* no storage entry and publish no event, whatever their arguments and result;
\* extend_ttl requests are all they hand to the store, and check_presence issues
\* none when no session is active.
C20_ReadsChangeNothing ==
  [][call'.op \in ReadOps =>
       /\ Storage' = Storage
       /\ events' = << >>
       /\ (call'.op = "check_presence" /\ ActiveHash = None)
            => (ttl' = << >> /\ ret' = FALSE)]_vars

\* check_presence without an active session: false, and no request issued.
C20_Witness ==
  /\ call.op = "check_presence"
  /\ ActiveHash = None
  /\ ret = FALSE
  /\ ttl = << >>

====
